---- MODULE Spec2Model ----
(***************************************************************************)
(* Model of the task tracker's data-access layer (FirebaseService) and of  *)
(* the screen handlers that call it.  The document store is modelled by    *)
(* three collections: users (uid -> profile document), projects (project   *)
(* id -> project document) and tasks (document id -> task document).  A    *)
(* collection is a function whose DOMAIN is the set of documents that      *)
(* exist.                                                                  *)
(***************************************************************************)
EXTENDS Integers, Sequences, FiniteSets, TLC

\* Largest value of the wall clock that a run reaches.  The clock counts
\* ticks; a Timestamp made from it has its seconds and, below them, the tick
\* within the second (its nanoseconds).
MaxClock == 2
TicksPerSecond == 2

\* Timestamp.seconds
Seconds(t) == t \div TicksPerSecond

\* Principals known to the auth provider (uid), project ids, document ids.
Uids == {"u1", "u2"}
ProjectIds == {"p1", "p2"}
TaskIds == {1, 2}

\* An omitted / undefined / empty string argument or field (falsy in JS).
NoUid == ""
\* An absent Timestamp field.
NoTime == -1
\* No task id (operation did not resolve or create a document).
NoTask == 0

Statuses == {"pending", "in_progress", "completed"}

VARIABLES
    users,    \* collection "users": uid -> profile document
    tasks,    \* collection "tasks": document id -> task document
    clock,    \* new Date(), in ticks
    regs,     \* registerUser calls in flight: uid -> position and what it read
    last,     \* the last service call: its arguments and how it ended
    projects, \* collection "projects": project id -> project document
    session,  \* AuthContext of each principal's device: currentUser, userData, isAdmin
    screen,   \* AdminScreen of each principal's device: the userData and users it loaded
    auth,     \* the auth SDK and the AuthProvider on each device: what is in flight
    inits,    \* initializeTasksCollection calls: where each is and what its cleanup found
    view      \* the screens of one device: the lists they show and their fetches in flight

vars == <<users, tasks, clock, regs, last, projects, session, screen, auth, inits, view>>

----------------------------------------------------------------------------
(* Documents *)

\* UserData; deleteUser replaces the document, so email and role may be absent.
UserDoc(email, role, createdAt) ==
    [email |-> email, role |-> role, createdAt |-> createdAt, deleted |-> FALSE,
     deletedAt |-> NoTime]

\* getUserData resolving to null: no profile document.
NoUserData == UserDoc("", "", NoTime)

\* useState initial values of AuthProvider: nobody signed in.
SignedOut == [currentUser |-> NoUid, userData |-> NoUserData, isAdmin |-> FALSE]

\* The auth SDK and the AuthProvider of a device before anyone signed in:
\* auth.currentUser, the auth state changes not yet delivered to the listener,
\* the currentUser seen by the refreshUserData the effects were last run with,
\* the refreshUserData calls awaiting getUserData, and the uid whose loginUser
\* awaits the lastLogin update.
NoAuth == [user |-> NoUid, events |-> <<>>, closure |-> NoUid, reads |-> {}, login |-> NoUid]

\* The initializeTasksCollection calls told apart, and one not yet made.
Inits == {"mount1", "mount2"}
NotStarted == [pc |-> "idle", found |-> {}]

\* The screens of a device before anything was fetched: the screen in front
\* (named by the collection it lists), the list each screen shows, and the
\* load calls awaiting the store, oldest first.
NoView ==
    [open |-> "tasks", shown |-> [tasks |-> <<>>, projects |-> <<>>, users |-> <<>>],
     fetches |-> <<>>]

\* useState initial values of AdminScreen: no userData, an empty list of users.
NotLoaded == [userData |-> NoUserData, users |-> <<>>]

EmailOf(u) == IF u = "u1" THEN "u1@mail" ELSE IF u = "u2" THEN "u2@mail" ELSE "other@mail"

\* TaskData plus the assignedBy field the views read.
TaskDoc(description, duration, status, projectId, createdBy, createdAt) ==
    [description |-> description, duration |-> duration, status |-> status,
     projectId |-> projectId, createdBy |-> createdBy, createdAt |-> createdAt,
     completedAt |-> NoTime, assignedBy |-> NoUid]

\* A task document written before createdBy was recorded.
LegacyTask == TaskDoc("d", 30, "pending", "p1", NoUid, 0)

\* What a call reports: the operation, its caller and target, and its outcome.
Outcome(op, caller, task, project, result, listing) ==
    [op |-> op, caller |-> caller, task |-> task, project |-> project,
     result |-> result, listing |-> listing]

----------------------------------------------------------------------------
(* Document store primitives (firebase/firestore) *)

\* addDoc: a new document under an id no document of the collection has.
AddDoc(coll, id, data) == [x \in DOMAIN coll \cup {id} |-> IF x = id THEN data ELSE coll[x]]

\* updateDoc: merges the given fields into an existing document.
MergeFields(docData, data) ==
    [f \in DOMAIN docData \cup DOMAIN data |-> IF f \in DOMAIN data THEN data[f] ELSE docData[f]]

UpdateDoc(coll, id, data) == [coll EXCEPT ![id] = MergeFields(coll[id], data)]

\* deleteDoc: removes the document; resolves also when there is none.
DeleteDoc(coll, id) == [x \in DOMAIN coll \ {id} |-> coll[x]]

\* userData?.role === 'admin'
IsUserAdmin(u) == u \in DOMAIN users /\ users[u].role = "admin"

\* setDoc: writes the document under the id, replacing one that exists.
SetDoc(coll, id, data) == [x \in DOMAIN coll \cup {id} |-> IF x = id THEN data ELSE coll[x]]

\* A call that threw: nothing is written, the collections stay as they are.
Throws(op, caller, task, project, kind) ==
    /\ last' = Outcome(op, caller, task, project, kind, <<>>)
    /\ UNCHANGED <<users, tasks, clock, regs, projects, session, screen, auth, inits, view>>

\* What a call on the tasks collection reports: as Outcome, with the calls it
\* made on the store, in the order it made them.
TaskOutcome(op, caller, task, project, result, storeCalls) ==
    [op |-> op, caller |-> caller, task |-> task, project |-> project,
     result |-> result, listing |-> <<>>, storeCalls |-> storeCalls]

\* A call on the tasks collection that threw after the given store calls.
TaskThrows(op, caller, task, project, kind, storeCalls) ==
    /\ last' = TaskOutcome(op, caller, task, project, kind, storeCalls)
    /\ UNCHANGED <<users, tasks, clock, regs, projects, session, screen, auth, inits, view>>

----------------------------------------------------------------------------
(* registerUser *)

\* createUserWithEmailAndPassword: the account exists from here on.
HasAccount(u) == regs[u].pc # "idle"

\* usersQuery.empty
IsFirstUser == DOMAIN users = {}

\* The role chosen without regard to the read of the users collection.
RoleAlwaysAdmin(first) == "admin"

\* role: isFirstUser ? "admin" : "user"
RoleFor(first) == IF first THEN "admin" ELSE "user"

\* The whole of registerUser with no other call in between.
RegisterUser(u) ==
    IF HasAccount(u)
    THEN Throws("registerUser", u, NoTask, "", "upstream")
    ELSE /\ users' = SetDoc(users, u, UserDoc(EmailOf(u), RoleFor(IsFirstUser), clock))
         /\ regs' = [regs EXCEPT ![u] = [pc |-> "done", first |-> IsFirstUser]]
         /\ last' = Outcome("registerUser", u, NoTask, "", "ok", <<>>)
         /\ UNCHANGED <<tasks, clock, projects, session, screen, auth, inits, view>>

\* registerUser, one await at a time: the account is created, ...
RegCreateAccount(u) ==
    /\ regs[u].pc = "idle"
    /\ regs' = [regs EXCEPT ![u].pc = "created"]
    /\ last' = Outcome("createAccount", u, NoTask, "", "ok", <<>>)
    /\ UNCHANGED <<users, tasks, clock, projects, session, screen, auth, inits, view>>

\* ... the users collection is read, ...
RegReadUsers(u) ==
    /\ regs[u].pc = "created"
    /\ regs' = [regs EXCEPT ![u] = [pc |-> "read", first |-> IsFirstUser]]
    /\ last' = Outcome("readUsers", u, NoTask, "", "ok", <<>>)
    /\ UNCHANGED <<users, tasks, clock, projects, session, screen, auth, inits, view>>

\* ... and the profile document is written with the role decided by the read.
RegWriteProfile(u) ==
    /\ regs[u].pc = "read"
    /\ users' = SetDoc(users, u, UserDoc(EmailOf(u), RoleFor(regs[u].first), clock))
    /\ regs' = [regs EXCEPT ![u].pc = "done"]
    /\ last' = Outcome("registerUser", u, NoTask, "", "ok", <<>>)
    /\ UNCHANGED <<tasks, clock, projects, session, screen, auth, inits, view>>

----------------------------------------------------------------------------
(* createTask *)

\* No field of the input looked at.
CreateTaskInvalidNever(taskData) == FALSE

\* !description || !duration || !projectId || !createdBy
CreateTaskInvalid(taskData) ==
    \/ taskData.description = ""
    \/ taskData.duration = 0
    \/ taskData.projectId = ""
    \/ taskData.createdBy = NoUid

\* The ownership check left out.
CreateTaskDeniedNever(taskData, userId) == FALSE

\* taskData.createdBy !== userId
CreateTaskDenied(taskData, userId) == taskData.createdBy # userId

CreateTask(taskData, userId) ==
    IF CreateTaskInvalid(taskData)
    THEN TaskThrows("createTask", userId, NoTask, taskData.projectId, "validation", <<>>)
    ELSE IF CreateTaskDenied(taskData, userId)
    THEN TaskThrows("createTask", userId, NoTask, taskData.projectId, "authorization", <<>>)
    ELSE \E id \in TaskIds \ DOMAIN tasks :
            /\ tasks' = AddDoc(tasks, id,
                               TaskDoc(taskData.description, taskData.duration, taskData.status,
                                       taskData.projectId, taskData.createdBy, clock))
            /\ last' = TaskOutcome("createTask", userId, id, taskData.projectId, "ok", <<"addDoc">>)
            /\ UNCHANGED <<users, clock, regs, projects, session, screen, auth, inits, view>>

----------------------------------------------------------------------------
(* updateTask, deleteTask *)

\* if (userId) { ... if (!taskDoc.exists()) throw 'Task not found' }
TaskMissingFor(taskId, userId) == userId # NoUid /\ taskId \notin DOMAIN tasks

\* The ownership check skipped for a task that records no creator.
TaskDeniedUnlessUnowned(taskId, userId) ==
    /\ userId # NoUid /\ taskId \in DOMAIN tasks
    /\ tasks[taskId].createdBy # NoUid /\ tasks[taskId].createdBy # userId

\* if (userId) { ... if (taskData.createdBy !== userId) throw }
TaskDeniedFor(taskId, userId) ==
    userId # NoUid /\ taskId \in DOMAIN tasks /\ tasks[taskId].createdBy # userId

\* The stamp made only when the patch carries a completedAt of its own.
MarksCompletedIfGiven(data) ==
    /\ "status" \in DOMAIN data
    /\ data.status = "completed"
    /\ "completedAt" \in DOMAIN data

\* data.status === 'completed' && !data.completedAt
MarksCompleted(data) ==
    /\ "status" \in DOMAIN data
    /\ data.status = "completed"
    /\ ~("completedAt" \in DOMAIN data /\ data.completedAt # NoTime)

\* updateData = { ...data }, with completedAt stamped when marking as completed
UpdateData(data) ==
    IF MarksCompleted(data)
    THEN [f \in DOMAIN data \cup {"completedAt"} |->
             IF f = "completedAt" THEN clock ELSE data[f]]
    ELSE data

\* if (userId) { const taskDoc = await getDoc(doc(db, "tasks", taskId)); ... }:
\* the store calls made by the time the ownership check is over.
CheckedByReading(userId) == IF userId # NoUid THEN <<"getDoc">> ELSE <<>>

UpdateTask(taskId, data, userId) ==
    IF TaskMissingFor(taskId, userId)
    THEN TaskThrows("updateTask", userId, taskId, "", "notfound", CheckedByReading(userId))
    ELSE IF TaskDeniedFor(taskId, userId)
    THEN TaskThrows("updateTask", userId, taskId, "", "authorization", CheckedByReading(userId))
    ELSE IF taskId \notin DOMAIN tasks
    THEN \* updateDoc rejects with not-found when the document does not exist
         TaskThrows("updateTask", userId, taskId, "", "notfound",
                    CheckedByReading(userId) \o <<"updateDoc">>)
    ELSE /\ tasks' = UpdateDoc(tasks, taskId, UpdateData(data))
         /\ last' = TaskOutcome("updateTask", userId, taskId, "", "ok",
                                CheckedByReading(userId) \o <<"updateDoc">>)
         /\ UNCHANGED <<users, clock, regs, projects, session, screen, auth, inits, view>>

DeleteTask(taskId, userId) ==
    IF TaskMissingFor(taskId, userId)
    THEN TaskThrows("deleteTask", userId, taskId, "", "notfound", CheckedByReading(userId))
    ELSE IF TaskDeniedFor(taskId, userId)
    THEN TaskThrows("deleteTask", userId, taskId, "", "authorization", CheckedByReading(userId))
    ELSE /\ tasks' = DeleteDoc(tasks, taskId)
         /\ last' = TaskOutcome("deleteTask", userId, taskId, "", "ok",
                                CheckedByReading(userId) \o <<"deleteDoc">>)
         /\ UNCHANGED <<users, clock, regs, projects, session, screen, auth, inits, view>>

----------------------------------------------------------------------------
(* Task listings *)

\* The documents of a query snapshot come in document-id order.
RECURSIVE SnapshotOrder(_)
SnapshotOrder(ids) ==
    IF ids = {} THEN <<>>
    ELSE LET m == CHOOSE x \in ids : \A y \in ids : x <= y
         IN <<m>> \o SnapshotOrder(ids \ {m})

\* Array.prototype.sort with (a, b) => b.createdAt.seconds - a.createdAt.seconds:
\* a stable sort, so a document goes behind every one that is not older.
RECURSIVE InsertNewestFirst(_, _)
InsertNewestFirst(sorted, id) ==
    IF sorted = <<>> THEN <<id>>
    ELSE IF Seconds(tasks[Head(sorted)].createdAt) >= Seconds(tasks[id].createdAt)
    THEN <<Head(sorted)>> \o InsertNewestFirst(Tail(sorted), id)
    ELSE <<id>> \o sorted

RECURSIVE SortNewestFirst(_)
SortNewestFirst(ids) ==
    IF ids = <<>> THEN <<>>
    ELSE InsertNewestFirst(SortNewestFirst(SubSeq(ids, 1, Len(ids) - 1)), ids[Len(ids)])

\* where("projectId", "==", projectId), and where("createdBy", "==", userId) if (userId)
ProjectTasksQuery(projectId, userId) ==
    {t \in DOMAIN tasks : /\ tasks[t].projectId = projectId
                          /\ (userId # NoUid => tasks[t].createdBy = userId)}

GetProjectTasks(projectId, userId) ==
    SortNewestFirst(SnapshotOrder(ProjectTasksQuery(projectId, userId)))

\* The query without its createdBy filter.
UserProjectTasksQueryAnyOwner(projectId, userId) ==
    {t \in DOMAIN tasks : tasks[t].projectId = projectId}

\* where("projectId", "==", projectId), where("createdBy", "==", userId)
UserProjectTasksQuery(projectId, userId) ==
    {t \in DOMAIN tasks : tasks[t].projectId = projectId /\ tasks[t].createdBy = userId}

GetUserProjectTasks(projectId, userId) ==
    SortNewestFirst(SnapshotOrder(UserProjectTasksQuery(projectId, userId)))

\* userData?.email || 'Unknown User', userData being getUserData(task.createdBy)
CreatorEmail(createdBy) ==
    IF createdBy \in DOMAIN users /\ users[createdBy].email # ""
    THEN users[createdBy].email
    ELSE "Unknown User"

WithUsers(ids) ==
    [i \in 1..Len(ids) |-> [id |-> ids[i], creatorEmail |-> CreatorEmail(tasks[ids[i]].createdBy)]]

GetProjectTasksWithUsers(projectId, userId) == WithUsers(GetProjectTasks(projectId, userId))

GetUserProjectTasksWithUsers(projectId, userId) == WithUsers(GetUserProjectTasks(projectId, userId))

\* Every viewer given the admin's view.
TaskListForAnyone(projectId, uid) == GetProjectTasksWithUsers(projectId, NoUid)

\* ProjectDetailScreen shows AdminProjectView to an admin and UserProjectView to
\* anyone else; each view's loadTasks fetches its list.
TaskListFor(projectId, uid) ==
    IF IsUserAdmin(uid)
    THEN GetProjectTasksWithUsers(projectId, NoUid)
    ELSE GetUserProjectTasksWithUsers(projectId, uid)

LoadTasks(projectId, uid) ==
    /\ last' = Outcome("loadTasks", uid, NoTask, projectId, "ok", TaskListFor(projectId, uid))
    /\ UNCHANGED <<users, tasks, clock, regs, projects, session, screen, auth, inits, view>>

\* The ids of a listing.
ListedIds(listing) == {listing[i].id : i \in 1..Len(listing)}

\* query(collection(db, "tasks"), orderBy("createdAt", "desc")): the store
\* orders by the whole timestamp and then by document id, both descending.
RECURSIVE OrderByCreatedAtDesc(_)
OrderByCreatedAtDesc(ids) ==
    IF ids = {} THEN <<>>
    ELSE LET m == CHOOSE x \in ids : \A y \in ids :
                      \/ tasks[x].createdAt > tasks[y].createdAt
                      \/ (tasks[x].createdAt = tasks[y].createdAt /\ x >= y)
         IN <<m>> \o OrderByCreatedAtDesc(ids \ {m})

GetAllTasks == OrderByCreatedAtDesc(DOMAIN tasks)

\* Only the tasks whose creator could be looked up are returned.
WithUsersDroppingFailed(ids, failedLookups) ==
    LET kept == SelectSeq(ids, LAMBDA id : id \notin failedLookups)
    IN [i \in 1..Len(kept) |->
           [id |-> kept[i], creatorEmail |-> CreatorEmail(tasks[kept[i]].createdBy)]]

\* tasks.map(async (task) => { try { ...getUserData(task.createdBy)... } catch
\* { creatorEmail: 'Unknown User' } }): failedLookups are the tasks whose
\* getUserData call throws.
WithUsersWhen(ids, failedLookups) ==
    [i \in 1..Len(ids) |->
        [id |-> ids[i],
         creatorEmail |-> IF ids[i] \in failedLookups
                          THEN "Unknown User"
                          ELSE CreatorEmail(tasks[ids[i]].createdBy)]]

\* getProjectTasksWithUsers with a store whose reads may fail: what the
\* primary fetch throws is thrown on.
ProjectTasksWithUsers(projectId, userId, primaryFails, failedLookups) ==
    IF primaryFails
    THEN Throws("getProjectTasksWithUsers", userId, NoTask, projectId, "upstream")
    ELSE /\ last' = Outcome("getProjectTasksWithUsers", userId, NoTask, projectId, "ok",
                            WithUsersWhen(GetProjectTasks(projectId, userId), failedLookups))
         /\ UNCHANGED <<users, tasks, clock, regs, projects, session, screen, auth, inits, view>>

\* getAllTasksWithUsers, likewise.
AllTasksWithUsers(primaryFails, failedLookups) ==
    IF primaryFails
    THEN Throws("getAllTasksWithUsers", NoUid, NoTask, "", "upstream")
    ELSE /\ last' = Outcome("getAllTasksWithUsers", NoUid, NoTask, "", "ok",
                            WithUsersWhen(GetAllTasks, failedLookups))
         /\ UNCHANGED <<users, tasks, clock, regs, projects, session, screen, auth, inits, view>>

----------------------------------------------------------------------------
(* Task creation by an admin for another user *)

\* canCreateTaskFor(principal, targetOwnerUid)
CanCreateTaskFor(principal, targetOwnerUid) ==
    targetOwnerUid = principal \/ IsUserAdmin(principal)

\* createAssignedTask(taskData, adminUid, assignedTo): the task is owned by the
\* assignee and records who assigned it.
CreateAssignedTask(taskData, adminUid, assignedTo) ==
    IF ~CanCreateTaskFor(adminUid, assignedTo)
    THEN Throws("createAssignedTask", adminUid, NoTask, taskData.projectId, "authorization")
    ELSE IF taskData.description = "" \/ taskData.duration <= 0 \/ taskData.projectId = ""
    THEN Throws("createAssignedTask", adminUid, NoTask, taskData.projectId, "validation")
    ELSE \E id \in TaskIds \ DOMAIN tasks :
            /\ tasks' = AddDoc(tasks, id,
                               [TaskDoc(taskData.description, taskData.duration, taskData.status,
                                        taskData.projectId, assignedTo, clock)
                                EXCEPT !.assignedBy = adminUid])
            /\ last' = Outcome("createAssignedTask", adminUid, id, taskData.projectId, "ok", <<>>)
            /\ UNCHANGED <<users, clock, regs, projects, session, screen, auth, inits, view>>

\* AdminProjectView.handleSaveTask for a new task: the form is checked, then the
\* task is created for the chosen user, or for the admin when none is chosen.
AdminSaveNewTask(admin, description, duration, projectId, assignedTo) ==
    /\ IsUserAdmin(admin)
    /\ IF description = "" \/ duration <= 0
       THEN Throws("handleSaveTask", admin, NoTask, projectId, "validation")
       ELSE IF assignedTo # NoUid
       THEN CreateAssignedTask([description |-> description, duration |-> duration,
                                status |-> "pending", projectId |-> projectId],
                               admin, assignedTo)
       ELSE CreateTask([description |-> description, duration |-> duration,
                        status |-> "pending", projectId |-> projectId,
                        createdBy |-> admin], admin)

----------------------------------------------------------------------------
(* Reassigning a task *)

\* The admin check left out.
ReassignDeniedNever(adminUid) == FALSE

\* reassignTask is admin-only.
ReassignDenied(adminUid) == ~IsUserAdmin(adminUid)

\* updateTaskAssignment(taskId, assignedTo, adminUid): the task changes owner
\* and records who reassigned it.
UpdateTaskAssignment(taskId, assignedTo, adminUid) ==
    IF ReassignDenied(adminUid)
    THEN Throws("updateTaskAssignment", adminUid, taskId, "", "authorization")
    ELSE IF taskId \notin DOMAIN tasks
    THEN Throws("updateTaskAssignment", adminUid, taskId, "", "notfound")
    ELSE /\ tasks' = UpdateDoc(tasks, taskId, [createdBy |-> assignedTo, assignedBy |-> adminUid])
         /\ last' = Outcome("updateTaskAssignment", adminUid, taskId, "", "ok", <<>>)
         /\ UNCHANGED <<users, clock, regs, projects, session, screen, auth, inits, view>>

\* AdminProjectView.handleSaveTask for the task being edited: with a user
\* chosen in the form the task is reassigned (task documents have no
\* assignedTo field to compare the choice with), otherwise its details are
\* updated.
AdminSaveEditedTask(admin, taskId, description, duration, assignedTo) ==
    /\ IsUserAdmin(admin)
    /\ IF description = "" \/ duration <= 0
       THEN Throws("handleSaveTask", admin, taskId, "", "validation")
       ELSE IF assignedTo # NoUid
       THEN UpdateTaskAssignment(taskId, assignedTo, admin)
       ELSE UpdateTask(taskId, [description |-> description, duration |-> duration], admin)

----------------------------------------------------------------------------
(* Projects *)

\* The creator's uid stored under another field name.
ProjectWithTimestampNoOwner(projectData) ==
    [title |-> projectData.title, description |-> projectData.description,
     status |-> projectData.status, createdBy |-> NoUid,
     createdAt |-> clock, updatedAt |-> clock]

\* { ...projectData, createdAt: Timestamp.fromDate(new Date()),
\*   updatedAt: Timestamp.fromDate(new Date()) }
ProjectWithTimestamp(projectData) ==
    [f \in DOMAIN projectData \cup {"createdAt", "updatedAt"} |->
        IF f \in {"createdAt", "updatedAt"} THEN clock ELSE projectData[f]]

\* createProject: addDoc gives the document a new id, which is returned.
CreateProject(projectData) ==
    \E id \in ProjectIds \ DOMAIN projects :
        /\ projects' = AddDoc(projects, id, ProjectWithTimestamp(projectData))
        /\ last' = Outcome("createProject", NoUid, NoTask, id, "ok", <<>>)
        /\ UNCHANGED <<users, tasks, clock, regs, session, screen, auth, inits, view>>

\* What getProject resolves to, as a list: { id, ...data } of the document, or
\* nothing (null) when there is no such document.
ProjectRecord(projectId) ==
    IF projectId \in DOMAIN projects
    THEN <<MergeFields([id |-> projectId], projects[projectId])>>
    ELSE <<>>

\* getProject; a failed read of the store is thrown on to the caller.
GetProject(projectId, readFails) ==
    IF readFails
    THEN Throws("getProject", NoUid, NoTask, projectId, "upstream")
    ELSE /\ last' = Outcome("getProject", NoUid, NoTask, projectId, "ok", ProjectRecord(projectId))
         /\ UNCHANGED <<users, tasks, clock, regs, projects, session, screen, auth, inits, view>>

\* The patch written as it was given, with no updatedAt added.
ProjectUpdateDataUnstamped(data, stamp) == data

\* updateData = { ...data, updatedAt: ... }
ProjectUpdateData(data, stamp) ==
    [f \in DOMAIN data \cup {"updatedAt"} |-> IF f = "updatedAt" THEN stamp ELSE data[f]]

\* new Timestamp(new Date().getTime() / 1000, 0): the seconds are not a whole
\* number and the nanoseconds are zero; the store keeps the instant either as
\* it is or cut down to its whole seconds.
UpdatedAtNow == {clock, Seconds(clock) * TicksPerSecond}

\* updateProject; updateDoc rejects with not-found when there is no document.
UpdateProject(projectId, data) ==
    IF projectId \notin DOMAIN projects
    THEN Throws("updateProject", NoUid, NoTask, projectId, "notfound")
    ELSE \E stamp \in UpdatedAtNow :
            /\ projects' = UpdateDoc(projects, projectId, ProjectUpdateData(data, stamp))
            /\ last' = Outcome("updateProject", NoUid, NoTask, projectId, "ok", <<>>)
            /\ UNCHANGED <<users, tasks, clock, regs, session, screen, auth, inits, view>>

\* The tasks of the project deleted along with it.
TasksCascaded(projectId) ==
    [t \in {x \in DOMAIN tasks : tasks[x].projectId # projectId} |-> tasks[t]]

\* deleteProject makes no write to the tasks collection.
TasksAfterDeleteProject(projectId) == tasks

\* deleteProject: deleteDoc(doc(db, "projects", projectId)) and nothing else.
DeleteProject(projectId) ==
    /\ projects' = DeleteDoc(projects, projectId)
    /\ tasks' = TasksAfterDeleteProject(projectId)
    /\ last' = Outcome("deleteProject", NoUid, NoTask, projectId, "ok", <<>>)
    /\ UNCHANGED <<users, clock, regs, session, screen, auth, inits, view>>

\* Every project counted as the user's own.
OwnsProjectAlways(projectId, userId) == TRUE

\* projectData.createdBy === userId
OwnsProject(projectId, userId) == projects[projectId].createdBy = userId

\* What canUserAccessProject returns: the user's record is read first and an
\* admin is let in without a read of the project; a read that throws ends in
\* the catch, which returns false.
CanAccess(userId, projectId, userReadFails, projectReadFails) ==
    IF userReadFails THEN FALSE
    ELSE IF IsUserAdmin(userId) THEN TRUE
    ELSE IF projectReadFails THEN FALSE
    ELSE IF projectId \notin DOMAIN projects THEN FALSE
    ELSE OwnsProject(projectId, userId)

\* canUserAccessProject
CanUserAccessProject(userId, projectId, userReadFails, projectReadFails) ==
    /\ last' = Outcome("canUserAccessProject", userId, NoTask, projectId,
                       IF CanAccess(userId, projectId, userReadFails, projectReadFails)
                       THEN "true" ELSE "false", <<>>)
    /\ UNCHANGED <<users, tasks, clock, regs, projects, session, screen, auth, inits, view>>

----------------------------------------------------------------------------
(* AuthContext: who is signed in and with which role *)

\* Anyone whose record was read counts as an admin.
AdminStatusOfAny(data) == TRUE

\* const adminStatus = data.role === 'admin'
AdminStatus(data) == data.role = "admin"

\* What refreshUserData leaves in userData and isAdmin for the signed-in uid:
\* the record and its admin status, or null and false when getUserData
\* resolves to null or throws.
Resolved(uid, readFails) ==
    IF readFails \/ uid \notin DOMAIN users
    THEN [userData |-> NoUserData, isAdmin |-> FALSE]
    ELSE [userData |-> users[uid], isAdmin |-> AdminStatus(users[uid])]

\* refreshUserData of the AuthContext on u's device; without a currentUser it
\* only logs.  It catches what getUserData throws.
RefreshUserData(u, readFails) ==
    /\ session' = IF session[u].currentUser # NoUid
                  THEN [session EXCEPT ![u].userData = Resolved(session[u].currentUser, readFails).userData,
                                       ![u].isAdmin = Resolved(session[u].currentUser, readFails).isAdmin]
                  ELSE session
    /\ last' = Outcome("refreshUserData", u, NoTask, "", "ok", <<>>)
    /\ UNCHANGED <<users, tasks, clock, regs, projects, screen, auth, inits, view>>

\* The onAuthStateChanged listener on u's device, called with the signed-in
\* user or with null.  The refreshUserData it awaits is the one of the render
\* that subscribed it, which still sees the currentUser of that render.
OnAuthStateChanged(u, user, readFails) ==
    /\ user # NoUid => HasAccount(user)
    /\ session' =
          IF user = NoUid
          THEN [session EXCEPT ![u] = SignedOut]
          ELSE IF session[u].currentUser # NoUid
          THEN [session EXCEPT ![u] =
                   [currentUser |-> user,
                    userData |-> Resolved(session[u].currentUser, readFails).userData,
                    isAdmin |-> Resolved(session[u].currentUser, readFails).isAdmin]]
          ELSE [session EXCEPT ![u].currentUser = user]
    /\ last' = Outcome("onAuthStateChanged", u, NoTask, "", "ok", <<>>)
    /\ UNCHANGED <<users, tasks, clock, regs, projects, screen, auth, inits, view>>

\* isUserAdmin(userId): false when getUserData throws.
IsUserAdminCall(userId, readFails) ==
    /\ last' = Outcome("isUserAdmin", userId, NoTask, "",
                       IF ~readFails /\ IsUserAdmin(userId) THEN "true" ELSE "false", <<>>)
    /\ UNCHANGED <<users, tasks, clock, regs, projects, session, screen, auth, inits, view>>

----------------------------------------------------------------------------
(* User management *)

\* updateDoc(doc(db, "users", userId), { role })
UpdateUserRoleWrite(userId, role) == UpdateDoc(users, userId, [role |-> role])

\* updateUserRole; updateDoc rejects with not-found when there is no document.
UpdateUserRole(userId, role) ==
    IF userId \notin DOMAIN users
    THEN Throws("updateUserRole", NoUid, NoTask, userId, "notfound")
    ELSE /\ users' = UpdateUserRoleWrite(userId, role)
         /\ last' = Outcome("updateUserRole", NoUid, NoTask, userId, "ok", <<>>)
         /\ UNCHANGED <<tasks, clock, regs, projects, session, screen, auth, inits, view>>

\* { deleted: true, deletedAt: Timestamp.fromDate(new Date()) }
DeletedUserDoc == [UserDoc("", "", NoTime) EXCEPT !.deleted = TRUE, !.deletedAt = clock]

\* The profile document removed from the collection.
DeleteUserRemoves(userId) == DeleteDoc(users, userId)

\* setDoc(doc(db, "users", userId), { deleted, deletedAt }): no merge, the
\* document is replaced by the two fields.
DeleteUserWrite(userId) == SetDoc(users, userId, DeletedUserDoc)

\* deleteUser
DeleteUser(userId) ==
    /\ users' = DeleteUserWrite(userId)
    /\ last' = Outcome("deleteUser", NoUid, NoTask, userId, "ok", <<>>)
    /\ UNCHANGED <<tasks, clock, regs, projects, session, screen, auth, inits, view>>

\* AdminScreen.loadUserData: the screen's own copy of the viewer's record; a
\* failed read is logged and the copy stays.
LoadUserData(u, readFails) ==
    /\ session[u].currentUser # NoUid
    /\ screen' = IF readFails THEN screen
                 ELSE [screen EXCEPT ![u].userData =
                          IF session[u].currentUser \in DOMAIN users
                          THEN users[session[u].currentUser] ELSE NoUserData]
    /\ last' = Outcome("loadUserData", u, NoTask, "", "ok", <<>>)
    /\ UNCHANGED <<users, tasks, clock, regs, projects, session, auth, inits, view>>

\* AdminScreen.loadUsers: getAllUsers, every profile document with its id.
LoadUsers(u) ==
    /\ screen' = [screen EXCEPT ![u].users = users]
    /\ last' = Outcome("loadUsers", u, NoTask, "", "ok", <<>>)
    /\ UNCHANGED <<users, tasks, clock, regs, projects, session, auth, inits, view>>

\* AdminScreen shows the list when its userData says admin, and the buttons
\* of an entry of the list that is not the viewer's own.
ShowsActionsFor(u, userId) ==
    /\ screen[u].userData.role = "admin"
    /\ userId \in DOMAIN screen[u].users
    /\ userId # session[u].currentUser

\* The button of an entry: 'Remove Admin' for a listed admin, else 'Make Admin'.
ToggledRole(u, userId) == IF screen[u].users[userId].role = "admin" THEN "user" ELSE "admin"

\* AdminScreen.handleUpdateUserRole from the button of a listed user; the list
\* is loaded again after the write.
HandleUpdateUserRole(u, userId) ==
    /\ ShowsActionsFor(u, userId)
    /\ IF userId \notin DOMAIN users
       THEN /\ last' = Outcome("handleUpdateUserRole", u, NoTask, userId, "notfound", <<>>)
            /\ UNCHANGED <<users, screen, auth, inits, view>>
       ELSE /\ users' = UpdateUserRoleWrite(userId, ToggledRole(u, userId))
            /\ screen' = [screen EXCEPT ![u].users = users']
            /\ last' = Outcome("handleUpdateUserRole", u, NoTask, userId, "ok", <<>>)
    /\ UNCHANGED <<tasks, clock, regs, projects, session, auth, inits, view>>

\* AdminScreen.handleDeleteUser, confirmed; the list is loaded again after
\* the write.
HandleDeleteUser(u, userId) ==
    /\ ShowsActionsFor(u, userId)
    /\ users' = DeleteUserWrite(userId)
    /\ screen' = [screen EXCEPT ![u].users = users']
    /\ last' = Outcome("handleDeleteUser", u, NoTask, userId, "ok", <<>>)
    /\ UNCHANGED <<tasks, clock, regs, projects, session, auth, inits, view>>

----------------------------------------------------------------------------
(* The service, one call at a time *)

----------------------------------------------------------------------------
(* The session on one device, one await at a time *)

\* The auth SDK signs user in or out (NoUid) and notifies the listener.
AuthStateSet(d, user) ==
    [auth EXCEPT ![d].user = user, ![d].events = Append(@, user)]

\* refreshUserData called by a render whose currentUser is uid: it awaits
\* getUserData(uid), or only logs when there is no currentUser.
RefreshIssued(reads, uid) ==
    IF uid # NoUid
    THEN reads \cup {[uid |-> uid, answered |-> FALSE, userData |-> NoUserData, isAdmin |-> FALSE]}
    ELSE reads

\* The screens shown on d are those of the render with the present
\* currentUser, and the effects of that render have run: a press on a screen
\* is handled after them.
Rendered(d) == auth[d].closure = session[d].currentUser

\* registerUser on device d, its first await: createUserWithEmailAndPassword
\* creates the account and signs it in.  The register screen is shown while
\* the AuthProvider has no currentUser.
RegisterCreateAccount(d, u) ==
    /\ Rendered(d)
    /\ session[d].currentUser = NoUid
    /\ auth[d].user = NoUid
    /\ auth[d].login = NoUid
    /\ regs[u].pc = "idle"
    /\ regs' = [regs EXCEPT ![u].pc = "created"]
    /\ auth' = AuthStateSet(d, u)
    /\ last' = Outcome("createAccount", u, NoTask, "", "ok", <<>>)
    /\ UNCHANGED <<users, tasks, clock, projects, session, screen, inits, view>>

\* registerUser rejects at the read of the users collection or at the write
\* of the profile: the account stays, with no profile document.
RegisterFails(u) ==
    /\ regs[u].pc \in {"created", "read"}
    /\ regs' = [regs EXCEPT ![u].pc = "failed"]
    /\ last' = Outcome("registerUser", u, NoTask, "", "upstream", <<>>)
    /\ UNCHANGED <<users, tasks, clock, projects, session, screen, auth, inits, view>>

\* loginUser on device d, its first await: signInWithEmailAndPassword rejects
\* (passwordOk false) and loginUser rethrows, or it signs the account in.
LoginSignIn(d, user, passwordOk) ==
    /\ Rendered(d)
    /\ session[d].currentUser = NoUid
    /\ auth[d].user = NoUid
    /\ auth[d].login = NoUid
    /\ HasAccount(user)
    /\ IF passwordOk
       THEN /\ auth' = [AuthStateSet(d, user) EXCEPT ![d].login = user]
            /\ last' = Outcome("signIn", user, NoTask, "", "ok", <<>>)
       ELSE /\ auth' = auth
            /\ last' = Outcome("loginUser", user, NoTask, "", "upstream", <<>>)
    /\ UNCHANGED <<users, tasks, clock, regs, projects, session, screen, inits, view>>

\* loginUser, its second await: updateDoc of lastLogin, which rejects when the
\* account has no profile document; loginUser rethrows.
LoginUpdateLastLogin(d) ==
    /\ auth[d].login # NoUid
    /\ auth' = [auth EXCEPT ![d].login = NoUid]
    /\ IF auth[d].login \in DOMAIN users
       THEN /\ users' = UpdateDoc(users, auth[d].login, [lastLogin |-> clock])
            /\ last' = Outcome("loginUser", auth[d].login, NoTask, "", "ok", <<>>)
       ELSE /\ users' = users
            /\ last' = Outcome("loginUser", auth[d].login, NoTask, "", "notfound", <<>>)
    /\ UNCHANGED <<tasks, clock, regs, projects, session, screen, inits, view>>

\* logoutUser from the profile screen, shown while there is a currentUser.
LogoutUser(d) ==
    /\ Rendered(d)
    /\ session[d].currentUser # NoUid
    /\ auth[d].user # NoUid
    /\ auth' = AuthStateSet(d, NoUid)
    /\ last' = Outcome("logoutUser", session[d].currentUser, NoTask, "", "ok", <<>>)
    /\ UNCHANGED <<users, tasks, clock, regs, projects, session, screen, inits, view>>

\* The listener is called with the next auth state: setCurrentUser(user), then
\* with a user the refreshUserData of the render that subscribed it, and with
\* null setUserData(null), setIsAdmin(false).
AuthStateChanged(d) ==
    /\ auth[d].events # <<>>
    /\ LET user == Head(auth[d].events) IN
       /\ session' = IF user = NoUid
                     THEN [session EXCEPT ![d] = SignedOut]
                     ELSE [session EXCEPT ![d].currentUser = user]
       /\ auth' = [auth EXCEPT
                     ![d].events = Tail(@),
                     ![d].reads = IF user = NoUid THEN @ ELSE RefreshIssued(@, auth[d].closure)]
    /\ last' = Outcome("onAuthStateChanged", d, NoTask, "", "ok", <<>>)
    /\ UNCHANGED <<users, tasks, clock, regs, projects, screen, inits, view>>

\* currentUser changed, so refreshUserData is a new callback and both effects
\* run again: the first sets currentUser to auth.currentUser and calls the new
\* refreshUserData when someone is signed in, the second subscribes a new
\* listener, which the SDK calls with the current auth state.
EffectsRun(d) ==
    /\ auth[d].closure # session[d].currentUser
    /\ session' = IF auth[d].user # NoUid
                  THEN [session EXCEPT ![d].currentUser = auth[d].user]
                  ELSE session
    /\ auth' = [auth EXCEPT
                  ![d].closure = session[d].currentUser,
                  ![d].reads = IF auth[d].user # NoUid
                               THEN RefreshIssued(@, session[d].currentUser)
                               ELSE @,
                  ![d].events = Append(@, auth[d].user)]
    /\ last' = Outcome("effects", d, NoTask, "", "ok", <<>>)
    /\ UNCHANGED <<users, tasks, clock, regs, projects, screen, inits, view>>

\* The store answers the getUserData of a refreshUserData in flight.
GetUserDataAnswers(d, r, readFails) ==
    /\ r \in auth[d].reads
    /\ ~r.answered
    /\ auth' = [auth EXCEPT ![d].reads =
                  (@ \ {r}) \cup {[uid |-> r.uid, answered |-> TRUE,
                                   userData |-> Resolved(r.uid, readFails).userData,
                                   isAdmin |-> Resolved(r.uid, readFails).isAdmin]}]
    /\ last' = Outcome("getUserData", r.uid, NoTask, "", "ok", <<>>)
    /\ UNCHANGED <<users, tasks, clock, regs, projects, session, screen, inits, view>>

\* refreshUserData resumes after its await: setUserData, setIsAdmin.
RefreshResumes(d, r) ==
    /\ r \in auth[d].reads
    /\ r.answered
    /\ session' = [session EXCEPT ![d].userData = r.userData, ![d].isAdmin = r.isAdmin]
    /\ auth' = [auth EXCEPT ![d].reads = @ \ {r}]
    /\ last' = Outcome("refreshUserData", d, NoTask, "", "ok", <<>>)
    /\ UNCHANGED <<users, tasks, clock, regs, projects, screen, inits, view>>

----------------------------------------------------------------------------
(* initializeTasksCollection, one await at a time *)

\* const sampleTask: TaskData = { description: "Sample Task", ... }
SampleTask ==
    MergeFields(TaskDoc("Sample Task", 30, "pending", "sample-project", "system", clock),
                [notes |-> "This is a sample task to initialize the collection"])


\* query(tasksCollection, where("description", "==", "Sample Task"))
SampleTasksQuery == {t \in DOMAIN tasks : tasks[t].description = "Sample Task"}

\* The probe getDocs(query(tasksCollection, limit(1))): when it resolves the
\* call is over, when it rejects the catch goes on to insert the sample.
InitProbe(i, probeFails) ==
    /\ inits[i].pc = "idle"
    /\ inits' = [inits EXCEPT ![i].pc = IF probeFails THEN "insert" ELSE "done"]
    /\ last' = Outcome("initializeTasksCollection", i, NoTask, "",
                       IF probeFails THEN "probe failed" ELSE "ok", <<>>)
    /\ UNCHANGED <<users, tasks, clock, regs, projects, session, screen, auth, view>>

\* await addDoc(tasksCollection, sampleTask), then setTimeout(cleanup, 5000);
\* a rejected addDoc is caught and logged.
InitAddSample(i, addFails) ==
    /\ inits[i].pc = "insert"
    /\ IF addFails
       THEN /\ tasks' = tasks
            /\ inits' = [inits EXCEPT ![i].pc = "done"]
            /\ last' = Outcome("initializeTasksCollection", i, NoTask, "", "ok", <<>>)
       ELSE \E id \in TaskIds \ DOMAIN tasks :
               /\ tasks' = AddDoc(tasks, id, SampleTask)
               /\ inits' = [inits EXCEPT ![i].pc = "timer"]
               /\ last' = Outcome("initializeTasksCollection", i, id, "", "ok", <<>>)
    /\ UNCHANGED <<users, clock, regs, projects, session, screen, auth, view>>

\* The timer fires: the cleanup reads the tasks described as "Sample Task".
InitCleanupQuery(i) ==
    /\ inits[i].pc = "timer"
    /\ inits' = [inits EXCEPT ![i] = [pc |-> "cleanup", found |-> SampleTasksQuery]]
    /\ last' = Outcome("cleanupQuery", i, NoTask, "", "ok", <<>>)
    /\ UNCHANGED <<users, tasks, clock, regs, projects, session, screen, auth, view>>

\* querySnapshot.forEach(async (doc) => { await deleteDoc(doc.ref) }), one
\* document at a time; with none left the cleanup is over.
InitCleanupDelete(i) ==
    /\ inits[i].pc = "cleanup"
    /\ IF inits[i].found = {}
       THEN /\ tasks' = tasks
            /\ inits' = [inits EXCEPT ![i].pc = "done"]
            /\ last' = Outcome("cleanupDone", i, NoTask, "", "ok", <<>>)
       ELSE \E t \in inits[i].found :
               /\ tasks' = DeleteDoc(tasks, t)
               /\ inits' = [inits EXCEPT ![i].found = @ \ {t}]
               /\ last' = Outcome("cleanupDelete", i, t, "", "ok", <<>>)
    /\ UNCHANGED <<users, clock, regs, projects, session, screen, auth, view>>

----------------------------------------------------------------------------
(* The screens of one device, one await at a time *)

\* The principal using the device, and the project whose view is open.
Viewer == "u1"
OpenProject == "p1"

\* The service calls a handler of a screen awaits before it loads again.
MutationOps ==
    {"createTask", "updateTask", "deleteTask",
     "createProject", "updateProject", "deleteProject",
     "updateUserRole", "deleteUser"}

\* loadTasks after a task call, loadProjects after a project call, loadUsers
\* after a user call.
AffectedCollection(op) ==
    IF op \in {"createTask", "updateTask", "deleteTask"} THEN "tasks"
    ELSE IF op \in {"createProject", "updateProject", "deleteProject"} THEN "projects"
    ELSE "users"

\* What a load call's service call resolves to: the project view's task list,
\* getAllProjects, getAllUsers (documents with their ids).
Fetched(coll) ==
    IF coll = "tasks" THEN TaskListFor(OpenProject, Viewer)
    ELSE IF coll = "projects" THEN projects
    ELSE users

\* A load call made from src: it awaits the store.
LoadIssued(fetches, coll, src) ==
    Append(fetches, [coll |-> coll, src |-> src, answered |-> FALSE, result |-> <<>>])

InFlight(coll, src) ==
    \E k \in 1..Len(view.fetches) : view.fetches[k].coll = coll /\ view.fetches[k].src = src

\* A handler's awaited service call has settled and the handler has not gone
\* on yet.
Settled == last.op \in MutationOps

\* One handler of the device runs at a time.
HandlerIdle == ~Settled /\ \A coll \in {"tasks", "projects", "users"} : ~InFlight(coll, "handler")

\* The buttons of the screen in front can be pressed.
Pressable(coll) == HandlerIdle /\ view.open = coll

\* A handler loads again whatever its service call did.
ReloadsAlways(outcome) == TRUE

\* try { await FirebaseService.<call>; ...; loadX() } catch { Alert.alert }
Reloads(outcome) == outcome.result = "ok"

\* A screen's mount effect, focus effect or pull-to-refresh calls its load.
ScreenLoads(coll, src) ==
    /\ ~InFlight(coll, src)
    /\ view' = [view EXCEPT !.fetches = LoadIssued(@, coll, src)]
    /\ UNCHANGED <<users, tasks, clock, regs, last, projects, session, screen, auth, inits>>

\* The handler goes on after its awaited service call: it loads the affected
\* collection again, or alerts when the call threw.
HandlerResumes ==
    /\ Settled
    /\ view' = IF Reloads(last)
               THEN [view EXCEPT !.fetches = LoadIssued(@, AffectedCollection(last.op), "handler")]
               ELSE view
    /\ last' = Outcome("handler", Viewer, last.task, last.project, last.result, <<>>)
    /\ UNCHANGED <<users, tasks, clock, regs, projects, session, screen, auth, inits>>

\* The load calls in flight without the k-th.
Without(fetches, k) == SubSeq(fetches, 1, k - 1) \o SubSeq(fetches, k + 1, Len(fetches))

\* The store answers the k-th load call in flight, or the read fails and the
\* load alerts and sets nothing.
LoadAnswered(k, readFails) ==
    /\ k \in 1..Len(view.fetches)
    /\ ~view.fetches[k].answered
    /\ view' = IF readFails
               THEN [view EXCEPT !.fetches = Without(@, k)]
               ELSE [view EXCEPT !.fetches[k].answered = TRUE,
                                 !.fetches[k].result = Fetched(view.fetches[k].coll)]
    /\ UNCHANGED <<users, tasks, clock, regs, last, projects, session, screen, auth, inits>>

\* The k-th load call resumes after its await: setTasks(tasksData),
\* setProjects(projectsData) or setUsers(usersData).
LoadResumes(k) ==
    /\ k \in 1..Len(view.fetches)
    /\ view.fetches[k].answered
    /\ view' = [view EXCEPT !.shown[view.fetches[k].coll] = view.fetches[k].result,
                            !.fetches = Without(@, k)]
    /\ UNCHANGED <<users, tasks, clock, regs, last, projects, session, screen, auth, inits>>

Tick ==
    /\ clock < MaxClock
    /\ clock' = clock + 1
    /\ last' = Outcome("tick", NoUid, NoTask, "", "ok", <<>>)
    /\ UNCHANGED <<users, tasks, regs, projects, session, screen, auth, inits, view>>

NoCall == Outcome("none", NoUid, NoTask, "", "ok", <<>>)

Callers == Uids \cup {NoUid}

\* Who may do what: two principals, two projects, tasks of either owner and a
\* task with no owner recorded; the calls are made with and without a caller uid.
OwnerInputs ==
    [description : {"d"}, duration : {30}, status : {"pending"},
     projectId : ProjectIds, createdBy : Callers]
OwnerPatches == {[status |-> "in_progress"]}

Init ==
    /\ users = <<>>
    /\ projects = <<>>
    /\ session = [u \in Uids |-> SignedOut]
    /\ screen = [u \in Uids |-> NotLoaded]
    /\ tasks \in {<<>>, [t \in {1} |-> LegacyTask]}
    /\ clock = 0
    /\ regs = [u \in Uids |-> [pc |-> "idle", first |-> FALSE]]
    /\ last = NoCall
    /\ view = NoView
    /\ inits = [i \in Inits |-> NotStarted]
    /\ auth = [d \in Uids |-> NoAuth]

Next ==
    \/ \E u \in Uids : RegisterUser(u)
    \/ \E taskData \in OwnerInputs, userId \in Callers : CreateTask(taskData, userId)
    \/ \E taskId \in TaskIds, data \in OwnerPatches, userId \in Callers :
          UpdateTask(taskId, data, userId)
    \/ \E taskId \in TaskIds, userId \in Callers : DeleteTask(taskId, userId)
    \/ \E projectId \in ProjectIds, uid \in Uids : LoadTasks(projectId, uid)
    \/ \E admin \in Uids, description \in {"", "d"}, projectId \in ProjectIds,
          assignedTo \in Callers :
          AdminSaveNewTask(admin, description, 30, projectId, assignedTo)

Spec == Init /\ [][Next]_vars


\* What is stored: one principal working on one project while time passes; the
\* task fields are tried with empty, zero and negative values and every status.
FieldInputs ==
    [description : {"", "d"}, duration : {-1, 0, 30}, status : {"pending"},
     projectId : {"p1"}, createdBy : {"u1"}]
FieldPatches ==
    {[status |-> s] : s \in Statuses} \cup {[description |-> "d", duration |-> 30]}

InitFields ==
    /\ users = <<>>
    /\ projects = <<>>
    /\ session = [u \in Uids |-> SignedOut]
    /\ screen = [u \in Uids |-> NotLoaded]
    /\ tasks = <<>>
    /\ clock = 0
    /\ regs = [u \in Uids |-> [pc |-> "idle", first |-> FALSE]]
    /\ last = NoCall
    /\ view = NoView
    /\ inits = [i \in Inits |-> NotStarted]
    /\ auth = [d \in Uids |-> NoAuth]

NextFields ==
    \/ Tick
    \/ \E taskData \in FieldInputs : CreateTask(taskData, "u1")
    \/ \E taskId \in TaskIds, data \in FieldPatches : UpdateTask(taskId, data, "u1")
    \/ \E taskId \in TaskIds : DeleteTask(taskId, "u1")
    \/ LoadTasks("p1", "u1")

SpecFields == InitFields /\ [][NextFields]_vars

\* Reassignment: the principals register, create tasks of their own in one
\* project, and tasks are reassigned from the admin's form and by direct calls
\* of the service with any caller.
AssignInputs ==
    [description : {"d"}, duration : {30}, status : {"pending"},
     projectId : {"p1"}, createdBy : Uids]

NextAssign ==
    \/ \E u \in Uids : RegisterUser(u)
    \/ \E taskData \in AssignInputs : CreateTask(taskData, taskData.createdBy)
    \/ \E uid \in Uids : LoadTasks("p1", uid)
    \/ \E admin \in Uids, taskId \in TaskIds, description \in {"", "d"}, assignedTo \in Callers :
          AdminSaveEditedTask(admin, taskId, description, 30, assignedTo)
    \/ \E taskId \in TaskIds, assignedTo \in Uids, adminUid \in Callers :
          UpdateTaskAssignment(taskId, assignedTo, adminUid)

SpecAssign == InitFields /\ [][NextAssign]_vars

\* Projects over time: created from a filled and from a blank form, read,
\* patched (also with an empty patch and with the values they already have)
\* and deleted.
ProjectInputs ==
    {[title |-> "t", description |-> "d", status |-> "active", createdBy |-> "u1"],
     [title |-> "", description |-> "", status |-> "pending", createdBy |-> NoUid]}
ProjectPatches == {<<>>, [title |-> "t"], [title |-> "t2", status |-> "completed"]}

NextProjects ==
    \/ Tick
    \/ \E projectData \in ProjectInputs : CreateProject(projectData)
    \/ \E projectId \in ProjectIds, readFails \in BOOLEAN : GetProject(projectId, readFails)
    \/ \E projectId \in ProjectIds, data \in ProjectPatches : UpdateProject(projectId, data)
    \/ \E projectId \in ProjectIds : DeleteProject(projectId)

SpecProjects == InitFields /\ [][NextProjects]_vars

\* Who is signed in: registrations one await at a time, the auth listener
\* and refreshes on each device with reads of the store that may fail, and
\* roles that change under a session.
NextIdentity ==
    \/ \E u \in Uids : RegCreateAccount(u)
    \/ \E u \in Uids : RegReadUsers(u)
    \/ \E u \in Uids : RegWriteProfile(u)
    \/ \E u \in Uids, signedIn \in BOOLEAN, readFails \in BOOLEAN :
          OnAuthStateChanged(u, IF signedIn THEN u ELSE NoUid, readFails)
    \/ \E u \in Uids, readFails \in BOOLEAN : RefreshUserData(u, readFails)
    \/ \E userId \in Uids, readFails \in BOOLEAN : IsUserAdminCall(userId, readFails)
    \/ \E userId \in Uids, role \in {"admin", "user"} : UpdateUserRole(userId, role)

SpecIdentity == InitFields /\ [][NextIdentity]_vars

\* User management: the principals register and sign in, open the admin
\* screen on their devices and use its buttons.
NextAdmin ==
    \/ \E u \in Uids : RegisterUser(u)
    \/ \E u \in Uids : session[u].currentUser = NoUid /\ OnAuthStateChanged(u, u, FALSE)
    \/ \E u \in Uids, readFails \in BOOLEAN : LoadUserData(u, readFails)
    \/ \E u \in Uids : LoadUsers(u)
    \/ \E u \in Uids, userId \in Uids : HandleUpdateUserRole(u, userId)
    \/ \E u \in Uids, userId \in Uids : HandleDeleteUser(u, userId)

SpecAdmin == InitFields /\ [][NextAdmin]_vars

\* Access to projects: registered principals create projects and tasks in
\* them, projects are deleted, and access is asked for with reads of the store
\* that may fail.
AccessProjects == [title : {"t"}, description : {"d"}, status : {"active"}, createdBy : Uids]
AccessTasks ==
    [description : {"d"}, duration : {30}, status : {"pending"},
     projectId : ProjectIds, createdBy : {"u2"}]

NextAccess ==
    \/ \E u \in Uids : RegisterUser(u)
    \/ \E projectData \in AccessProjects : CreateProject(projectData)
    \/ \E projectId \in ProjectIds : DeleteProject(projectId)
    \/ \E taskData \in AccessTasks : CreateTask(taskData, taskData.createdBy)
    \/ \E userId \in Uids, projectId \in ProjectIds,
          userReadFails \in BOOLEAN, projectReadFails \in BOOLEAN :
          CanUserAccessProject(userId, projectId, userReadFails, projectReadFails)

SpecAccess == InitFields /\ [][NextAccess]_vars

\* Tasks read with their creators: u1 registers and is later deleted, u2 never
\* gets a record, both create tasks over time, and the lists are read from a
\* store whose reads may fail.
NextReads ==
    \/ Tick
    \/ RegisterUser("u1")
    \/ DeleteUser("u1")
    \/ \E taskData \in AssignInputs : CreateTask(taskData, taskData.createdBy)
    \/ \E userId \in {NoUid, "u2"}, primaryFails \in BOOLEAN, failedLookups \in SUBSET TaskIds :
          ProjectTasksWithUsers("p1", userId, primaryFails, failedLookups)
    \/ \E primaryFails \in BOOLEAN, failedLookups \in SUBSET TaskIds :
          AllTasksWithUsers(primaryFails, failedLookups)

SpecReads == InitFields /\ [][NextReads]_vars

\* Registrations whose awaits interleave.
NextConc ==
    \/ Tick
    \/ \E u \in Uids : RegCreateAccount(u)
    \/ \E u \in Uids : RegReadUsers(u)
    \/ \E u \in Uids : RegWriteProfile(u)

SpecConc == InitFields /\ [][NextConc]_vars

\* The session on the device of u1: u1 registers on it, signs in and out of
\* it, while the AuthProvider's listener, effects and role reads run in any
\* order and u2 registers from elsewhere; a registration may fail after the
\* account was created.
Device == "u1"

NextSession ==
    \/ RegisterCreateAccount(Device, Device)
    \/ RegCreateAccount("u2")
    \/ \E u \in Uids : RegReadUsers(u)
    \/ \E u \in Uids : RegWriteProfile(u)
    \/ \E u \in Uids : RegisterFails(u)
    \/ \E passwordOk \in BOOLEAN : LoginSignIn(Device, Device, passwordOk)
    \/ LoginUpdateLastLogin(Device)
    \/ LogoutUser(Device)
    \/ AuthStateChanged(Device)
    \/ EffectsRun(Device)
    \/ \E r \in auth[Device].reads : GetUserDataAnswers(Device, r, FALSE)
    \/ \E r \in auth[Device].reads : RefreshResumes(Device, r)

SpecSession == InitFields /\ [][NextSession]_vars

\* The same, where what is scheduled runs: the listener is called with every
\* auth state change, the effects of a render run, the store answers a read,
\* the refreshUserData awaiting it resumes.
SpecSessionFair ==
    /\ SpecSession
    /\ WF_vars(AuthStateChanged(Device))
    /\ WF_vars(EffectsRun(Device))
    /\ WF_vars(\E r \in auth[Device].reads : GetUserDataAnswers(Device, r, FALSE))
    /\ WF_vars(\E r \in auth[Device].reads : RefreshResumes(Device, r))

\* The project view is opened twice, each mount calling
\* initializeTasksCollection with a probe that resolves or rejects, while u1
\* creates tasks, one of them described as the sample is, and time passes.
SampleInputs ==
    [description : {"d", "Sample Task"}, duration : {30}, status : {"pending"},
     projectId : {"p1"}, createdBy : {"u1"}]

NextInitialize ==
    \/ \E taskData \in SampleInputs : CreateTask(taskData, "u1")
    \/ \E i \in Inits, probeFails \in BOOLEAN : InitProbe(i, probeFails)
    \/ \E i \in Inits, addFails \in BOOLEAN : InitAddSample(i, addFails)
    \/ \E i \in Inits : InitCleanupQuery(i)
    \/ \E i \in Inits : InitCleanupDelete(i)
    \/ Tick

SpecInitialize == InitFields /\ [][NextInitialize]_vars

\* The screens of u1's device, with the project view, the projects screen or
\* the admin screen in front: u1's handlers create, patch and delete what the
\* screen lists, one handler at a time, and the store answers the load each
\* of them calls; u2 registers from elsewhere.
ScreenTaskInputs ==
    [description : {"", "d"}, duration : {30}, status : {"pending"},
     projectId : {OpenProject}, createdBy : {Viewer}]

InitScreens ==
    /\ users = <<>>
    /\ projects = <<>>
    /\ session = [u \in Uids |-> SignedOut]
    /\ screen = [u \in Uids |-> NotLoaded]
    /\ tasks = <<>>
    /\ clock = 0
    /\ regs = [u \in Uids |-> [pc |-> "idle", first |-> FALSE]]
    /\ last = NoCall
    /\ auth = [d \in Uids |-> NoAuth]
    /\ inits = [i \in Inits |-> NotStarted]
    /\ view \in {[NoView EXCEPT !.open = coll] : coll \in {"tasks", "projects", "users"}}

NextScreens ==
    \/ Pressable("users") /\ ~HasAccount("u2") /\ RegisterUser("u2")
    \/ \E taskData \in ScreenTaskInputs : Pressable("tasks") /\ CreateTask(taskData, Viewer)
    \/ \E taskId \in TaskIds :
          Pressable("tasks") /\ UpdateTask(taskId, [status |-> "completed"], Viewer)
    \/ \E taskId \in TaskIds : Pressable("tasks") /\ DeleteTask(taskId, Viewer)
    \/ Pressable("projects")
          /\ CreateProject([title |-> "t", description |-> "d", status |-> "active",
                            createdBy |-> Viewer])
    \/ \E projectId \in ProjectIds : Pressable("projects") /\ UpdateProject(projectId, [title |-> "t2"])
    \/ \E projectId \in ProjectIds : Pressable("projects") /\ DeleteProject(projectId)
    \/ \E role \in {"admin", "user"} : Pressable("users") /\ UpdateUserRole("u2", role)
    \/ Pressable("users") /\ DeleteUser("u2")
    \/ ScreenLoads(view.open, "mount")
    \/ HandlerResumes
    \/ \E k \in 1..Len(view.fetches), readFails \in BOOLEAN : LoadAnswered(k, readFails)
    \/ \E k \in 1..Len(view.fetches) : LoadResumes(k)

SpecScreens == InitScreens /\ [][NextScreens]_vars

\* The project view of u1's device: it loads its task list when it mounts,
\* when it gains focus and after each handler's call, while u1 creates,
\* completes and deletes tasks; the store answers every load, in any order.
NextTaskView ==
    \/ HandlerIdle /\ CreateTask([description |-> "d", duration |-> 30, status |-> "pending",
                                   projectId |-> OpenProject, createdBy |-> Viewer], Viewer)
    \/ \E taskId \in TaskIds : HandlerIdle /\ UpdateTask(taskId, [status |-> "completed"], Viewer)
    \/ \E taskId \in TaskIds : HandlerIdle /\ DeleteTask(taskId, Viewer)
    \/ \E src \in {"mount", "focus"} : ScreenLoads("tasks", src)
    \/ HandlerResumes
    \/ \E k \in 1..Len(view.fetches) : LoadAnswered(k, FALSE)
    \/ \E k \in 1..Len(view.fetches) : LoadResumes(k)

SpecTaskView == InitFields /\ [][NextTaskView]_vars




----------------------------------------------------------------------------
(* Properties *)

Admins == {u \in DOMAIN users : users[u].role = "admin"}

\* The task documents of a project, and those of them a user created.
TasksOf(projectId) == {t \in DOMAIN tasks : tasks[t].projectId = projectId}
TasksOfBy(projectId, uid) == {t \in TasksOf(projectId) : tasks[t].createdBy = uid}

\* C1: updateTask and deleteTask called with the uid of a principal who is not
\* an admin, on a stored task that principal did not create (also a task with
\* no creator recorded), throw the authorization error and leave the tasks
\* collection as it was.
C1_NonOwnerDenied ==
    [][\A t \in DOMAIN tasks, P \in Uids :
          (~IsUserAdmin(P) /\ tasks[t].createdBy # P) =>
              /\ \A data \in OwnerPatches :
                    UpdateTask(t, data, P) => (last'.result = "authorization" /\ tasks' = tasks)
              /\ DeleteTask(t, P) => (last'.result = "authorization" /\ tasks' = tasks)]_vars

\* A registered non-admin was denied on a task that records no creator.
C1_Witness ==
    /\ last.op \in {"updateTask", "deleteTask"}
    /\ last.result = "authorization"
    /\ last.caller \in DOMAIN users
    /\ users[last.caller].role = "user"
    /\ last.task \in DOMAIN tasks
    /\ tasks[last.task].createdBy = NoUid

\* C2: updateTask and deleteTask called with an admin's uid, as the admin
\* project view calls them, succeed on every stored task whoever created it.
C2_AdminMutatesAnyTask ==
    [][\A t \in DOMAIN tasks, A \in Uids :
          IsUserAdmin(A) =>
              /\ \A data \in OwnerPatches : UpdateTask(t, data, A) => last'.result = "ok"
              /\ DeleteTask(t, A) => last'.result = "ok"]_vars

C4_InvalidTaskRejected ==
    [][\A taskData \in FieldInputs :
          (taskData.duration <= 0 \/ taskData.description = "") =>
              (CreateTask(taskData, "u1") => (last'.result = "validation" /\ tasks' = tasks))]_vars

\* C5: with registrations made one after another from an empty users
\* collection, the first registrant is stored as admin and every later one as
\* user, so there is exactly one admin.
C5_FirstRegistrantAdmin ==
    /\ (last.op = "registerUser" /\ last.result = "ok") =>
          users[last.caller].role =
              IF DOMAIN users = {last.caller} THEN "admin" ELSE "user"
    /\ DOMAIN users # {} => Cardinality(Admins) = 1

\* A second registrant was stored with role user.
C5_Witness ==
    /\ last.op = "registerUser"
    /\ last.result = "ok"
    /\ Cardinality(DOMAIN users) = 2
    /\ users[last.caller].role = "user"

\* C6: when the registrations have all completed, however their reads and
\* writes interleaved, exactly one registrant is stored as admin.
C6_OneAdminAfterConcurrentRegistration ==
    (\A u \in Uids : regs[u].pc = "done") => Cardinality(Admins) = 1

\* C7: an updateTask that sets status to completed on a task whose stored
\* completedAt is unset leaves the stored task with completedAt set.
C7_CompletionStamped ==
    [][\A t \in DOMAIN tasks, data \in FieldPatches :
          ( /\ "status" \in DOMAIN data
            /\ data.status = "completed"
            /\ tasks[t].completedAt = NoTime
            /\ UpdateTask(t, data, "u1") ) =>
              (t \in DOMAIN tasks' /\ tasks'[t].completedAt # NoTime)]_vars

\* A task created earlier carries the time at which it was marked completed.
C7_Witness ==
    /\ last.op = "updateTask"
    /\ last.result = "ok"
    /\ last.task \in DOMAIN tasks
    /\ tasks[last.task].status = "completed"
    /\ tasks[last.task].completedAt = clock
    /\ tasks[last.task].createdAt < clock

\* C8: an updateTask that sets status to completed on a task whose stored
\* completedAt is already set leaves completedAt as it was.
C8_CompletionNotOverwritten ==
    [][\A t \in DOMAIN tasks, data \in FieldPatches :
          ( /\ "status" \in DOMAIN data
            /\ data.status = "completed"
            /\ tasks[t].completedAt # NoTime
            /\ UpdateTask(t, data, "u1") ) =>
              (t \in DOMAIN tasks' /\ tasks'[t].completedAt = tasks[t].completedAt)]_vars

\* C9: deleteTask on an id under which no task is stored throws not-found,
\* whether the call carries a caller uid or not.
C9_DeleteMissingNotFound ==
    [][\A t \in TaskIds \ DOMAIN tasks, userId \in Callers :
          DeleteTask(t, userId) => last'.result = "notfound"]_vars

ProjectInputFields == {"title", "description", "status", "createdBy"}

\* C12: after createProject(data) has returned an id, getProject of that id,
\* with nothing written in between, returns a record that has the value of
\* data in every input field and has both createdAt and updatedAt set.
C12_CreateThenGetProject ==
    [][\A projectData \in ProjectInputs, id \in ProjectIds :
          (CreateProject(projectData) /\ last'.project = id) =>
              /\ Len(ProjectRecord(id)') = 1
              /\ LET got == ProjectRecord(id)'[1]
                 IN /\ \A f \in ProjectInputFields : got[f] = projectData[f]
                    /\ got.id = id
                    /\ got.createdAt # NoTime
                    /\ got.updatedAt # NoTime]_vars

\* A second project was created, from the blank form, and is the one stored.
C12_Witness ==
    /\ last.op = "createProject"
    /\ last.result = "ok"
    /\ Cardinality(DOMAIN projects) = 2
    /\ projects[last.project].title = ""
    /\ projects[last.project].createdAt > 0

\* C19: every updateProject of a stored project, whatever the patch (empty,
\* naming the values the project already has, or new values), writes an
\* updatedAt made from the time of the call and leaves every field of the
\* project that the patch does not name as it was; the other projects are not
\* touched.
C19_UpdateProjectFrame ==
    [][\A p \in DOMAIN projects, data \in ProjectPatches :
          UpdateProject(p, data) =>
              /\ last'.result = "ok"
              /\ projects'[p].updatedAt \in UpdatedAtNow
              /\ \A f \in DOMAIN data : projects'[p][f] = data[f]
              /\ \A f \in DOMAIN projects[p] \ (DOMAIN data \cup {"updatedAt"}) :
                    projects'[p][f] = projects[p][f]
              /\ \A q \in DOMAIN projects \ {p} : projects'[q] = projects[q]]_vars

\* A project created from the blank form was given the empty patch at a later
\* time: only its updatedAt moved.
C19_Witness ==
    /\ last.op = "updateProject"
    /\ last.result = "ok"
    /\ last.project \in DOMAIN projects
    /\ projects[last.project].title = ""
    /\ projects[last.project].updatedAt > projects[last.project].createdAt

\* C13: refreshUserData with a signed-in principal and isUserAdmin never
\* throw and report admin exactly when the read of the principal's record
\* succeeded and the record's role is admin; when the record does not exist
\* or the read fails, userData is null (no role) and isAdmin is false.
C13_ResolverFailsClosed ==
    [][\A u \in Uids, readFails \in BOOLEAN :
          /\ (RefreshUserData(u, readFails) /\ session[u].currentUser = u) =>
                /\ last'.result = "ok"
                /\ session'[u].isAdmin <=> (~readFails /\ u \in DOMAIN users /\ users[u].role = "admin")
                /\ (readFails \/ u \notin DOMAIN users) =>
                      (session'[u].userData = NoUserData /\ ~session'[u].isAdmin)
                /\ (~readFails /\ u \in DOMAIN users) => session'[u].userData = users[u]
          /\ IsUserAdminCall(u, readFails) =>
                (last'.result = "true" <=> (~readFails /\ u \in DOMAIN users /\ users[u].role = "admin"))
          /\ IsUserAdminCall(u, readFails) => last'.result \in {"true", "false"}]_vars

\* The refresh just made for a signed-in principal whose stored role is admin
\* failed to read the record: the session has no userData and is not admin.
C13_Witness ==
    /\ last.op = "refreshUserData"
    /\ session[last.caller].currentUser = last.caller
    /\ IsUserAdmin(last.caller)
    /\ session[last.caller].userData = NoUserData
    /\ ~session[last.caller].isAdmin

\* C14: once a user has registered, some user record has role admin, whatever
\* registrations, role changes and deletions of users have been made from the
\* admin screens of the signed-in principals.
C14_AlwaysAnAdmin == DOMAIN users # {} => Admins # {}

\* C15: canUserAccessProject(userId, projectId) returns true exactly when no
\* read it makes fails and either the user's stored role is admin, or the
\* project exists and its createdBy is userId; so it returns false for a user
\* who is not an admin when the project does not exist, and false when the
\* read of the user's record, or the read of the project made for a user who
\* is not an admin, fails.
C15_AccessAdminOrOwner ==
    [][\A userId \in Uids, projectId \in ProjectIds,
          userReadFails \in BOOLEAN, projectReadFails \in BOOLEAN :
          CanUserAccessProject(userId, projectId, userReadFails, projectReadFails) =>
              /\ last'.result \in {"true", "false"}
              /\ last'.result = "true" <=>
                    /\ ~userReadFails
                    /\ \/ (userId \in DOMAIN users /\ users[userId].role = "admin")
                       \/ /\ ~projectReadFails
                          /\ projectId \in DOMAIN projects
                          /\ projects[projectId].createdBy = userId]_vars

\* A registered user who is not an admin was refused a stored project that
\* another principal created.
C15_Witness ==
    /\ last.op = "canUserAccessProject"
    /\ last.result = "false"
    /\ last.caller \in DOMAIN users
    /\ users[last.caller].role = "user"
    /\ last.project \in DOMAIN projects
    /\ projects[last.project].createdBy \in Uids \ {last.caller}

\* C20: deleteProject removes the project's record and nothing else: the tasks
\* collection is as it was, so every task of the deleted project is still
\* stored with the same fields and the same projectId, and the other projects
\* and the users are as they were.
C20_DeleteProjectKeepsTasks ==
    [][\A projectId \in ProjectIds :
          DeleteProject(projectId) =>
              /\ tasks' = tasks
              /\ users' = users
              /\ DOMAIN projects' = DOMAIN projects \ {projectId}
              /\ \A q \in DOMAIN projects' : projects'[q] = projects[q]]_vars

\* A project was deleted while the other one stays, and a task that carries
\* the deleted project's id is stored.
C20_Witness ==
    /\ last.op = "deleteProject"
    /\ last.project \notin DOMAIN projects
    /\ DOMAIN projects # {}
    /\ \E t \in DOMAIN tasks : tasks[t].projectId = last.project

\* C16: in the task list loaded for a project no task comes before a task
\* whose createdAt is strictly later.
C16_ListedNewestFirst ==
    last.op = "loadTasks" =>
        \A i, j \in 1..Len(last.listing) :
            i < j => tasks[last.listing[i].id].createdAt >= tasks[last.listing[j].id].createdAt

\* The sequence of ids of a listing.
ListedSeq(listing) == [i \in 1..Len(listing) |-> listing[i].id]

\* The creator lookup of a task comes back without an email: it fails, there
\* is no record, or the record has no email.
LookupEmpty(t, failedLookups) ==
    \/ t \in failedLookups
    \/ tasks[t].createdBy \notin DOMAIN users
    \/ users[tasks[t].createdBy].email = ""

\* What C17 asks of a list with creators, given the list of the primary fetch.
JoinedAsFetched(listing, fetched, failedLookups) ==
    /\ ListedSeq(listing) = fetched
    /\ \A i \in 1..Len(listing) :
          listing[i].creatorEmail =
              IF LookupEmpty(fetched[i], failedLookups)
              THEN "Unknown User"
              ELSE users[tasks[fetched[i]].createdBy].email

\* C17: getProjectTasksWithUsers and getAllTasksWithUsers return every task of
\* their primary fetch, in the order of that fetch, a task whose creator
\* lookup fails or finds no email having creatorEmail 'Unknown User' and every
\* other task its creator's email; when the primary fetch fails the call
\* throws that failure and returns nothing.
C17_CreatorLookupTolerated ==
    [][\A primaryFails \in BOOLEAN, failedLookups \in SUBSET TaskIds :
          /\ \A userId \in {NoUid, "u2"} :
                ProjectTasksWithUsers("p1", userId, primaryFails, failedLookups) =>
                    IF primaryFails
                    THEN last'.result = "upstream" /\ last'.listing = <<>>
                    ELSE /\ last'.result = "ok"
                         /\ JoinedAsFetched(last'.listing, GetProjectTasks("p1", userId),
                                            failedLookups)
          /\ AllTasksWithUsers(primaryFails, failedLookups) =>
                IF primaryFails
                THEN last'.result = "upstream" /\ last'.listing = <<>>
                ELSE /\ last'.result = "ok"
                     /\ JoinedAsFetched(last'.listing, GetAllTasks, failedLookups)]_vars

\* A list of two tasks was returned in which the task of registered u1 has
\* 'Unknown User' (its lookup failed) next to a task with its creator's email.
C17_Witness ==
    /\ last.op \in {"getProjectTasksWithUsers", "getAllTasksWithUsers"}
    /\ last.result = "ok"
    /\ Len(last.listing) = 2
    /\ "u1" \in DOMAIN users
    /\ users["u1"].email # ""
    /\ \A t \in DOMAIN tasks : tasks[t].createdBy = "u1"
    /\ \E i, j \in 1..2 :
          /\ last.listing[i].creatorEmail = "Unknown User"
          /\ last.listing[j].creatorEmail = users["u1"].email

\* C18: no step removes a record from the users collection, and after a
\* deleteUser made from the admin screen the record of that user exists and
\* has deleted = true.
C18_UserRecordKept ==
    [][/\ DOMAIN users \subseteq DOMAIN users'
       /\ \A u \in Uids, userId \in Uids :
             HandleDeleteUser(u, userId) =>
                 (userId \in DOMAIN users' /\ users'[userId].deleted)]_vars

\* An admin has deleted a registered user: the record is there, flagged.
C18_Witness ==
    /\ last.op = "handleDeleteUser"
    /\ last.result = "ok"
    /\ last.project \in DOMAIN users
    /\ users[last.project].deleted
    /\ regs[last.project].pc = "done"

\* C21: a press of a button of the admin screen that changes the role stored
\* in a user record is made by a principal whose own stored role is admin.
C21_RoleChangedByAdminOnly ==
    [][\A u \in Uids, userId \in DOMAIN users :
          ((HandleUpdateUserRole(u, userId) \/ HandleDeleteUser(u, userId))
             /\ users'[userId].role # users[userId].role)
          => IsUserAdmin(u)]_vars

\* C24: every stored task has a duration above zero.
C24_DurationPositive == \A t \in DOMAIN tasks : tasks[t].duration > 0

\* C29: deleteUser of a stored user leaves the record's email, role and
\* createdAt as they were.
C29_DeleteUserKeepsProfile ==
    [][\A userId \in DOMAIN users :
          DeleteUser(userId) =>
              /\ users'[userId].email = users[userId].email
              /\ users'[userId].role = users[userId].role
              /\ users'[userId].createdAt = users[userId].createdAt]_vars

\* The store calls that write.
StoreWrites == {"addDoc", "updateDoc", "deleteDoc", "setDoc"}

\* C23 as stated: a createTask, updateTask or deleteTask that throws a
\* validation or an authorization error has made no store call and has left
\* the tasks collection as it was.
C23_DeniedBeforeAnyStoreCall ==
    [][\A userId \in Callers :
          /\ \A taskData \in OwnerInputs :
                (CreateTask(taskData, userId) /\ last'.result \in {"validation", "authorization"})
                => (last'.storeCalls = <<>> /\ tasks' = tasks)
          /\ \A taskId \in TaskIds, data \in OwnerPatches :
                (UpdateTask(taskId, data, userId) /\ last'.result \in {"validation", "authorization"})
                => (last'.storeCalls = <<>> /\ tasks' = tasks)
          /\ \A taskId \in TaskIds :
                (DeleteTask(taskId, userId) /\ last'.result \in {"validation", "authorization"})
                => (last'.storeCalls = <<>> /\ tasks' = tasks)]_vars

\* C23, amended: createTask with an input the service validates (a missing
\* description, duration, projectId or createdBy) or with a createdBy that is
\* not the caller throws before any store call; updateTask and deleteTask
\* called with a uid on a stored task that uid did not create throw after the
\* one read of the task the comparison is made on and before any write.  In each
\* case the call ends in the error, never in success, and the tasks
\* collection is as it was.
C23_DeniedBeforeAnyWrite ==
    [][\A userId \in Callers :
          /\ \A taskData \in OwnerInputs :
                CreateTask(taskData, userId) =>
                    /\ (taskData.description = "" \/ taskData.duration = 0
                          \/ taskData.projectId = "" \/ taskData.createdBy = NoUid)
                       => last'.result = "validation"
                    /\ taskData.createdBy # userId => last'.result \in {"validation", "authorization"}
                    /\ last'.result \in {"validation", "authorization"}
                       => (last'.storeCalls = <<>> /\ tasks' = tasks)
          /\ \A taskId \in DOMAIN tasks :
                (userId # NoUid /\ tasks[taskId].createdBy # userId) =>
                    /\ \A data \in OwnerPatches :
                          UpdateTask(taskId, data, userId) =>
                              /\ last'.result = "authorization"
                              /\ last'.storeCalls = <<"getDoc">>
                              /\ tasks' = tasks
                    /\ DeleteTask(taskId, userId) =>
                          /\ last'.result = "authorization"
                          /\ last'.storeCalls = <<"getDoc">>
                          /\ tasks' = tasks
          /\ \A taskId \in TaskIds, data \in OwnerPatches :
                ((UpdateTask(taskId, data, userId) \/ DeleteTask(taskId, userId))
                   /\ last'.result \in {"validation", "authorization"})
                => (tasks' = tasks /\ \A i \in 1..Len(last'.storeCalls) :
                                          last'.storeCalls[i] \notin StoreWrites)]_vars

\* An updateTask or deleteTask called by a user who did not create the stored
\* task was refused after its one read of the task.
C23_Witness ==
    /\ last.op \in {"updateTask", "deleteTask"}
    /\ last.result = "authorization"
    /\ last.storeCalls = <<"getDoc">>
    /\ last.task \in DOMAIN tasks
    /\ tasks[last.task].createdBy \in Uids \ {last.caller}

\* C22: when nobody is signed in on the device (the auth SDK has no user, the
\* listener has been called with every auth state change and the AuthProvider
\* has no currentUser), the AuthProvider holds no user data and isAdmin is
\* false.
C22_SignedOutHoldsNoUserData ==
    (/\ auth[Device].user = NoUid
     /\ auth[Device].events = <<>>
     /\ session[Device].currentUser = NoUid)
    => (session[Device].userData = NoUserData /\ ~session[Device].isAdmin)

\* C27: a loginUser that rejects leaves nobody signed in.
C27_RejectedLoginSignsNobodyIn ==
    [][\A passwordOk \in BOOLEAN :
          ((LoginSignIn(Device, Device, passwordOk) \/ LoginUpdateLastLogin(Device))
             /\ last'.op = "loginUser" /\ last'.result # "ok")
          => auth'[Device].user = NoUid]_vars

\* C28: once the registerUser of the first registrant has completed, with the
\* registrant still signed in, isAdmin becomes true (or the registrant signs
\* out first).
C28_FirstRegistrantBecomesAdmin ==
    (regs[Device].pc = "done" /\ regs[Device].first /\ auth[Device].user = Device)
    ~> (session[Device].isAdmin \/ auth[Device].user # Device)

\* C30: no step of initializeTasksCollection removes a task that was created
\* through createTask, and a call whose probe resolves writes and deletes
\* nothing.
C30_InitializeKeepsUserTasks ==
    [][\A i \in Inits :
          /\ (InitAddSample(i, TRUE) \/ InitAddSample(i, FALSE)
                \/ InitCleanupQuery(i) \/ InitCleanupDelete(i))
             => \A t \in DOMAIN tasks : tasks[t].createdBy \in Uids => t \in DOMAIN tasks'
          /\ InitProbe(i, FALSE) => (tasks' = tasks /\ inits'[i].pc = "done")]_vars

\* C25: a handler that goes on after its awaited create, update or delete call
\* calls the load of the collection the call wrote to when the call resolved,
\* and calls no load when it threw; a handler's load is called in no other
\* step, so only once the store has settled the write.
C25_ReloadAfterAcknowledgedWrite ==
    [][/\ HandlerResumes =>
             /\ last.result = "ok" =>
                   /\ Len(view'.fetches) = Len(view.fetches) + 1
                   /\ view'.fetches[Len(view'.fetches)].coll = AffectedCollection(last.op)
                   /\ view'.fetches[Len(view'.fetches)].src = "handler"
                   /\ ~view'.fetches[Len(view'.fetches)].answered
             /\ last.result # "ok" => view'.fetches = view.fetches
       /\ (/\ Len(view'.fetches) > Len(view.fetches)
           /\ view'.fetches[Len(view'.fetches)].src = "handler")
          => (Settled /\ last.result = "ok" /\ UNCHANGED <<users, tasks, projects>>)]_vars

\* A handler of the projects screen has called loadProjects after its call
\* resolved, and the store has not answered yet.
C25_Witness ==
    /\ last.op = "handler"
    /\ last.result = "ok"
    /\ InFlight("projects", "handler")
    /\ projects # <<>>
    /\ view.shown.projects = <<>>

\* C26: when every loadTasks the project view called has resumed and no
\* handler is under way, the view shows the task list the store holds.
C26_QuietViewShowsStore ==
    (view.fetches = <<>> /\ ~Settled)
    => view.shown.tasks = TaskListFor(OpenProject, Viewer)

====
